---- MODULE Spec2Model ----
(***************************************************************************)
(* Direct-to-storage upload flow of UploadPage.tsx together with the       *)
(* apiGet helper of shared/api.ts and the /api/r2/list route of the        *)
(* worker.  The browser's event loop is modelled by one action per event   *)
(* handler or promise continuation; HTTP responses are the inputs.         *)
(***************************************************************************)
EXTENDS Integers, Sequences, FiniteSets, TLC

\* ---------------------------------------------------------------- bounds
MaxAttempts == 1      \* upload() invocations explored

\* ------------------------------------------------------ program constants
maxSize == 1024 * 1024 * 1024

VARIABLES file, progress, objects,   \* React state of UploadPage
          mounted,                   \* the mount effect has run
          n,                         \* upload() invocations so far
          att,                       \* per invocation: position and locals of upload()
          xhr,                       \* per invocation: the XMLHttpRequest and its promise
          lists,                     \* refreshList() calls, in issue order
          bucket,                    \* object keys held by the storage backend
          lastEvent,                 \* last progress event relayed since progress was reset
          progressBy                 \* invocation whose callback last wrote progress (0: none)

vars == <<file, progress, objects, mounted, n, att, xhr, lists, bucket, lastEvent, progressBy>>

Attempts == 1..MaxAttempts

\* refreshList() runs once on mount and once per completed upload.
ListIds == 1..(MaxAttempts + 1)

\* ------------------------------------------------------------ candidates
NoFile == [null |-> TRUE, name |-> "", size |-> 0]

Files == { [null |-> FALSE, name |-> "empty.txt",  size |-> 0],
           [null |-> FALSE, name |-> "report.pdf", size |-> 2048],
           [null |-> FALSE, name |-> "limit.bin",  size |-> maxSize],
           [null |-> FALSE, name |-> "huge.bin",   size |-> maxSize + 1] }

\* ------------------------------------------------------------ JS numbers
\* A progress value is a JS number: an integer or NaN.
Num(i) == [nan |-> FALSE, int |-> i]
NaN == [nan |-> TRUE, int |-> 0]

\* Math.round((loaded / total) * 100); 0/0 is NaN, Math.round rounds half up.
MathRoundPercent(loaded, total) ==
    IF total = 0 THEN NaN
    ELSE Num((200 * loaded + total) \div (2 * total))

\* ProgressEvent values a transport dispatches.  Without a known length
\* total is 0 (loaded is not read then); with a known length loaded never
\* exceeds total, and total is 0 for an empty body.
NoEvent == [lengthComputable |-> FALSE, loaded |-> 0, total |-> 0, none |-> TRUE]

ProgressEvents ==
    { [lengthComputable |-> TRUE, loaded |-> p[1], total |-> p[2], none |-> FALSE] :
          p \in { <<0, 0>>, <<50, 100>>, <<100, 100>>, <<1, 8>>, <<1, 3>> } }
    \cup
    { [lengthComputable |-> FALSE, loaded |-> 0, total |-> 0, none |-> FALSE] }

\* --------------------------------------------------------- upload() checks
SizeExceedsGE(f) == f.size >= maxSize
SizeExceeds(f) == f.size > maxSize

StatusOkAlways(status) == status >= 200
StatusOk(status) == status >= 200 /\ status < 300

PutStatuses == {200, 299, 300, 500}

\* Outcomes of fetch('/api/r2/presign') followed by r.json(): the request
\* fails, or a response arrives with a status, a body that parses or not,
\* and possibly a url.  u is the url the issuer would allocate.
PresignResponses(u) ==
    { [reach |-> FALSE, ok |-> FALSE, parses |-> FALSE, hasUrl |-> FALSE, url |-> 0] }
    \cup
    { [reach |-> TRUE, ok |-> k, parses |-> FALSE, hasUrl |-> FALSE, url |-> 0] :
          k \in BOOLEAN }
    \cup
    { [reach |-> TRUE, ok |-> k, parses |-> TRUE, hasUrl |-> FALSE, url |-> 0] :
          k \in BOOLEAN }
    \cup
    { [reach |-> TRUE, ok |-> k, parses |-> TRUE, hasUrl |-> TRUE, url |-> u] :
          k \in BOOLEAN }

NoResp == [reach |-> FALSE, ok |-> FALSE, parses |-> FALSE, hasUrl |-> FALSE, url |-> -1]

\* ----------------------------------------------------------- listing side
\* Responses to GET /api/r2/list.  The worker route answers 200 with
\* {objects} or 500 with {error}, both as JSON; a response that is not
\* JSON, does not parse or lacks `objects` are the other shapes apiGet and
\* refreshList branch on.
ListKinds == {"objects", "error500", "notJson", "unparseable", "noObjectsKey"}

ListResponse(kind, bkt) ==
    CASE kind = "objects" ->
           [ok |-> TRUE,  json |-> TRUE,  parses |-> TRUE,  hasObjects |-> TRUE,  objects |-> bkt]
      [] kind = "error500" ->
           [ok |-> FALSE, json |-> TRUE,  parses |-> TRUE,  hasObjects |-> FALSE, objects |-> {}]
      [] kind = "notJson" ->
           [ok |-> TRUE,  json |-> FALSE, parses |-> FALSE, hasObjects |-> FALSE, objects |-> {}]
      [] kind = "unparseable" ->
           [ok |-> TRUE,  json |-> TRUE,  parses |-> FALSE, hasObjects |-> FALSE, objects |-> {}]
      [] kind = "noObjectsKey" ->
           [ok |-> TRUE,  json |-> TRUE,  parses |-> TRUE,  hasObjects |-> FALSE, objects |-> {}]

\* apiGet: null for a non-ok status, a non-JSON content type or a parse
\* error, otherwise the parsed body.
Null == [null |-> TRUE, hasObjects |-> FALSE, objects |-> {}]

apiGet(resp) ==
    IF ~resp.ok THEN Null
    ELSE IF ~resp.json THEN Null
    ELSE IF ~resp.parses THEN Null
    ELSE [null |-> FALSE, hasObjects |-> resp.hasObjects, objects |-> resp.objects]

\* res.objects || []
ObjectsOrEmpty(res) == IF res.hasObjects THEN res.objects ELSE {}

\* A refreshList() call.  owner is the upload() invocation that made it
\* (0 for the mount effect); seenProgress/seenFile are the React state
\* already written when the call was made; atIssue is the bucket when the
\* request left.  Once done, threw tells whether the call rejected, failed
\* whether the listing request failed, and value is what setObjects got.
NewList(owner, p, f, bkt) ==
    [owner |-> owner, st |-> "inflight", atIssue |-> bkt, failed |-> FALSE,
     threw |-> FALSE, value |-> {}, seenProgress |-> p, seenFile |-> f]

\* ------------------------------------------------------------------ Init
NewAtt == [pc |-> "new", file |-> NoFile, resp |-> NoResp, presignedUrl |-> 0,
           alert |-> "", presignCalls |-> 0, putCalls |-> 0, listCalls |-> 0]

NewXhr == [state |-> "unsent", url |-> 0, status |-> 0, sends |-> 0,
           promise |-> "none", settles |-> 0]

Init ==
    /\ file = NoFile
    /\ progress = Num(0)
    /\ objects = {}
    /\ mounted = FALSE
    /\ n = 0
    /\ att = [a \in Attempts |-> NewAtt]
    /\ xhr = [a \in Attempts |-> NewXhr]
    /\ lists = <<>>
    /\ bucket = {}
    /\ lastEvent = NoEvent
    /\ progressBy = 0


\* --------------------------------------------------------------- actions
\* useEffect(() => { refreshList() }, []): the first listing request.
Mount ==
    /\ ~mounted
    /\ mounted' = TRUE
    /\ lists' = Append(lists, NewList(0, progress, file, bucket))
    /\ UNCHANGED <<file, progress, objects, n, att, xhr, bucket, lastEvent, progressBy>>

\* <input type="file" onChange=...>: a file is chosen or the choice cleared.
SelectFile(f) ==
    /\ mounted
    /\ f # file
    /\ file' = f
    /\ UNCHANGED <<progress, objects, mounted, n, att, xhr, lists, bucket, lastEvent, progressBy>>

\* Click on Upload (the button is disabled while no file is selected):
\* upload() up to its first await.
Upload ==
    /\ mounted
    /\ ~file.null
    /\ n < MaxAttempts
    /\ n' = n + 1
    /\ att' = [att EXCEPT ![n + 1] =
                 IF SizeExceeds(file)
                 THEN [@ EXCEPT !.pc = "done", !.file = file,
                                !.alert = "file exceeds max size (1GB)"]
                 ELSE [@ EXCEPT !.pc = "fetch", !.file = file,
                                !.presignCalls = @ + 1]]
    /\ UNCHANGED <<file, progress, objects, mounted, xhr, lists, bucket, lastEvent, progressBy>>

\* const presignedUrl = payload.url
TransportUrlCached(a, payload) ==
    IF a > 1 /\ att[a - 1].presignedUrl # 0 THEN att[a - 1].presignedUrl ELSE payload.url
TransportUrl(a, payload) == payload.url

\* The presign fetch settles and upload() runs on to its next await:
\* fetch or r.json() rejecting rejects upload(); a payload without url
\* alerts and returns; otherwise putWithProgress opens and sends the PUT.
PresignSettles(a, resp) ==
    /\ att[a].pc = "fetch"
    /\ IF ~resp.reach \/ ~resp.parses
       THEN /\ att' = [att EXCEPT ![a] = [@ EXCEPT !.pc = "threw", !.resp = resp]]
            /\ xhr' = xhr
       ELSE IF ~resp.hasUrl
       THEN /\ att' = [att EXCEPT ![a] = [@ EXCEPT !.pc = "done", !.resp = resp,
                                                   !.alert = "presign failed"]]
            /\ xhr' = xhr
       ELSE /\ att' = [att EXCEPT ![a] = [@ EXCEPT !.pc = "put", !.resp = resp,
                                                   !.presignedUrl = TransportUrl(a, resp),
                                                   !.putCalls = @ + 1]]
            /\ xhr' = [xhr EXCEPT ![a] = [@ EXCEPT !.state = "sent",
                                                   !.url = TransportUrl(a, resp),
                                                   !.sends = @ + 1,
                                                   !.promise = "pending"]]
    /\ UNCHANGED <<file, progress, objects, mounted, n, lists, bucket, lastEvent, progressBy>>

\* xhr.upload.onprogress, relayed by (p) => setProgress(p).
XhrProgress(a, e) ==
    /\ xhr[a].state = "sent"
    /\ IF e.lengthComputable
       THEN /\ progress' = MathRoundPercent(e.loaded, e.total)
            /\ progressBy' = a
            /\ lastEvent' = e
       ELSE UNCHANGED <<progress, progressBy, lastEvent>>
    /\ UNCHANGED <<file, objects, mounted, n, att, xhr, lists, bucket>>

\* The tail of upload() after the awaited transport resolved.
UploadCompleteStale(a) ==
    /\ att' = [att EXCEPT ![a] = [@ EXCEPT !.pc = "done", !.alert = "Upload complete",
                                           !.listCalls = @ + 1]]
    /\ progress' = Num(0)
    /\ file' = NoFile
    /\ progressBy' = 0
    /\ lastEvent' = NoEvent
    /\ lists' = Append(lists, NewList(a, progress, file, bucket'))
UploadComplete(a) ==
    /\ att' = [att EXCEPT ![a] = [@ EXCEPT !.pc = "done", !.alert = "Upload complete",
                                           !.listCalls = @ + 1]]
    /\ progress' = Num(0)
    /\ file' = NoFile
    /\ progressBy' = 0
    /\ lastEvent' = NoEvent
    /\ lists' = Append(lists, NewList(a, Num(0), NoFile, bucket'))

\* The awaited transport rejected: nothing catches it, upload() rejects.
UploadThrowsRefreshes(a) ==
    /\ att' = [att EXCEPT ![a] = [@ EXCEPT !.pc = "threw", !.listCalls = @ + 1]]
    /\ lists' = Append(lists, NewList(a, progress, file, bucket'))
    /\ UNCHANGED <<progress, file, progressBy, lastEvent>>
UploadThrows(a) ==
    /\ att' = [att EXCEPT ![a] = [@ EXCEPT !.pc = "threw"]]
    /\ UNCHANGED <<progress, file, progressBy, lastEvent, lists>>

\* xhr.onload: a response arrived; a 2xx PUT stored the object.
XhrLoad(a, status) ==
    /\ xhr[a].state = "sent"
    /\ bucket' = IF status >= 200 /\ status < 300
                 THEN bucket \cup {att[a].file.name} ELSE bucket
    /\ IF StatusOk(status)
       THEN /\ xhr' = [xhr EXCEPT ![a] = [@ EXCEPT !.state = "load", !.status = status,
                                                   !.promise = "resolved",
                                                   !.settles = @ + 1]]
            /\ UploadComplete(a)
       ELSE /\ xhr' = [xhr EXCEPT ![a] = [@ EXCEPT !.state = "load", !.status = status,
                                                   !.promise = "rejected",
                                                   !.settles = @ + 1]]
            /\ UploadThrows(a)
    /\ UNCHANGED <<objects, mounted, n>>

\* xhr.onerror: the network failed before any response.
XhrError(a) ==
    /\ xhr[a].state = "sent"
    /\ bucket' = bucket
    /\ xhr' = [xhr EXCEPT ![a] = [@ EXCEPT !.state = "error", !.promise = "rejected",
                                           !.settles = @ + 1]]
    /\ UploadThrows(a)
    /\ UNCHANGED <<objects, mounted, n>>

\* The listing response arrives: apiGet returns, refreshList evaluates
\* res.objects || [] (a TypeError when res is null) and calls setObjects.
\* The server built the response from the bucket as it was when the
\* request left (fresh = FALSE) or as it is now (fresh = TRUE).
ListDeliver(i, kind, fresh) ==
    /\ i \in DOMAIN lists
    /\ lists[i].st = "inflight"
    /\ LET resp == ListResponse(kind, IF fresh THEN bucket ELSE lists[i].atIssue)
           res == apiGet(resp)
           bad == ~(resp.ok /\ resp.json /\ resp.parses /\ resp.hasObjects)
       IN IF res.null
          THEN /\ lists' = [lists EXCEPT ![i] = [@ EXCEPT !.st = "done", !.threw = TRUE,
                                                     !.failed = bad, !.atIssue = {}]]
               /\ objects' = objects
          ELSE /\ lists' = [lists EXCEPT ![i] = [@ EXCEPT !.st = "done", !.failed = bad,
                                                     !.value = ObjectsOrEmpty(res),
                                                     !.atIssue = {}]]
               /\ objects' = ObjectsOrEmpty(res)
    /\ UNCHANGED <<file, progress, mounted, n, att, xhr, bucket, lastEvent, progressBy>>

\* fetch rejects (network failure): apiGet and refreshList reject.
ListNetError(i) ==
    /\ i \in DOMAIN lists
    /\ lists[i].st = "inflight"
    /\ lists' = [lists EXCEPT ![i] = [@ EXCEPT !.st = "done", !.threw = TRUE,
                                              !.failed = TRUE, !.atIssue = {}]]
    /\ UNCHANGED <<file, progress, objects, mounted, n, att, xhr, bucket, lastEvent, progressBy>>

Next ==
    \/ Mount
    \/ \E f \in Files \cup {NoFile} : SelectFile(f)
    \/ Upload
    \/ \E a \in Attempts : \E resp \in PresignResponses(a) : PresignSettles(a, resp)
    \/ \E a \in Attempts : \E e \in ProgressEvents : XhrProgress(a, e)
    \/ \E a \in Attempts : \E status \in PutStatuses : XhrLoad(a, status)
    \/ \E a \in Attempts : XhrError(a)
    \/ \E i \in ListIds : \E kind \in ListKinds : \E fresh \in BOOLEAN :
          ListDeliver(i, kind, fresh)
    \/ \E i \in ListIds : ListNetError(i)

Spec == Init /\ [][Next]_vars


\* ================================================================ claims
FailureAlert(a) == att[a].alert \notin {"", "Upload complete"}

ListsOf(a) == { i \in 1..Len(lists) : lists[i].owner = a }

\* C1: an upload whose file is larger than 1,073,741,824 bytes is rejected
\* in upload() itself with a message and issues no credential request, no
\* PUT and no listing request; a file of exactly 1,073,741,824 bytes is not
\* rejected by the size check and goes on to the credential request.
C1_OversizeRejectedLocally ==
    \A a \in Attempts :
        att[a].pc # "new" =>
            /\ att[a].file.size > 1073741824 =>
                   /\ att[a].pc = "done"
                   /\ att[a].alert = "file exceeds max size (1GB)"
                   /\ att[a].presignCalls = 0
                   /\ att[a].putCalls = 0
                   /\ att[a].listCalls = 0
                   /\ xhr[a].sends = 0
                   /\ ListsOf(a) = {}
            /\ att[a].file.size <= 1073741824 =>
                   /\ att[a].alert # "file exceeds max size (1GB)"
                   /\ att[a].presignCalls = 1

C1_Witness ==
    \E a \in Attempts :
        /\ att[a].file.size = 1073741824 + 1
        /\ att[a].pc = "done"
        /\ att[a].alert = "file exceeds max size (1GB)"

\* C2: whenever the credential request failed (unreachable issuer,
\* non-success status, unparseable body, or a body without url) the attempt
\* shows a failure message and never sends the PUT.
C2_CredentialFailureSurfaced ==
    \A a \in Attempts :
        (/\ att[a].pc \notin {"new", "fetch"}
         /\ att[a].presignCalls = 1
         /\ (~att[a].resp.reach \/ ~att[a].resp.ok \/ ~att[a].resp.parses
               \/ ~att[a].resp.hasUrl))
        => (FailureAlert(a) /\ xhr[a].sends = 0)

\* C3: when the PUT ends with a status outside [200,300) or with a network
\* error, the attempt shows a failure message and issues no listing
\* refresh.
C3_TransportFailureSurfaced ==
    \A a \in Attempts :
        xhr[a].promise = "rejected" =>
            (FailureAlert(a) /\ att[a].listCalls = 0 /\ ListsOf(a) = {})

\* C4: a refreshList() whose listing request failed in any way completes
\* without throwing and replaces the object collection with the empty
\* sequence.
C4_ListingFailureYieldsEmpty ==
    [][\A i \in 1..Len(lists) :
          (lists[i].st = "inflight" /\ lists'[i].st = "done" /\ lists'[i].failed)
          => (~lists'[i].threw /\ objects' = {})]_vars

\* C5: when the transport of an attempt resolves (file of at most
\* 1,073,741,824 bytes, credential with url), that step ends the attempt
\* with progress 0 and no selected file, and issues exactly one listing
\* request, made after both were reset.
C5_SuccessResetsThenRefreshes ==
    [][\A a \in Attempts :
          (xhr[a].promise = "pending" /\ xhr'[a].promise = "resolved")
          => /\ att[a].file.size <= 1073741824
             /\ att[a].resp.hasUrl
             /\ att'[a].pc = "done"
             /\ progress' = Num(0)
             /\ file' = NoFile
             /\ Len(lists') = Len(lists) + 1
             /\ SubSeq(lists', 1, Len(lists)) = lists
             /\ lists'[Len(lists')].owner = a
             /\ lists'[Len(lists')].st = "inflight"
             /\ lists'[Len(lists')].seenProgress = Num(0)
             /\ lists'[Len(lists')].seenFile = NoFile]_vars

C5_Witness ==
    \E a \in Attempts :
        /\ att[a].file.size = 1073741824
        /\ xhr[a].promise = "resolved"
        /\ att[a].pc = "done"
        /\ progress = Num(0)
        /\ file = NoFile
        /\ ListsOf(a) # {}

\* C6: every progress value relayed to the UI is an integer in [0,100] and
\* is the nearest integer to sent/total*100 of the last length-computable
\* event, including events with total = 0.
C6_ProgressIsRoundedPercent ==
    progressBy # 0 =>
        /\ ~lastEvent.none
        /\ ~progress.nan
        /\ progress.int \in 0..100
        /\ lastEvent.total > 0 =>
               /\ 2 * (100 * lastEvent.loaded - progress.int * lastEvent.total)
                      <= lastEvent.total
               /\ 2 * (progress.int * lastEvent.total - 100 * lastEvent.loaded)
                      < lastEvent.total

\* C7: a transport invocation sends one PUT and settles its promise at most
\* once: resolved exactly when a response with a status in [200,300) has
\* arrived, rejected exactly when a response with another status has
\* arrived or the network failed; it is pending while the PUT is in flight.
C7_OnePutOneOutcome ==
    \A a \in Attempts :
        /\ xhr[a].sends <= 1
        /\ xhr[a].sends = att[a].putCalls
        /\ xhr[a].settles <= 1
        /\ (xhr[a].state # "unsent") <=> (xhr[a].sends = 1)
        /\ (xhr[a].state = "sent") <=> (xhr[a].promise = "pending")
        /\ (xhr[a].promise = "resolved") <=>
               (xhr[a].state = "load" /\ xhr[a].status \in 200..299)
        /\ (xhr[a].promise = "rejected") <=>
               (\/ xhr[a].state = "error"
                \/ (xhr[a].state = "load" /\ xhr[a].status \notin 200..299))
        /\ (xhr[a].settles = 1) <=> (xhr[a].promise \in {"resolved", "rejected"})

C7_Witness ==
    \E a \in Attempts :
        /\ xhr[a].state = "load"
        /\ xhr[a].status = 300
        /\ xhr[a].promise = "rejected"
        /\ xhr[a].settles = 1

\* C8: after an attempt aborted on a validation, credential or transport
\* failure, none of its network operations is pending and the progress
\* indicator does not hold a value written by that attempt.
Aborted(a) == att[a].pc = "threw" \/ (att[a].pc = "done" /\ FailureAlert(a))

C8_NoStateLeftByFailedAttempt ==
    \A a \in Attempts :
        Aborted(a) =>
            /\ xhr[a].state # "sent"
            /\ \A i \in ListsOf(a) : lists[i].st = "done"
            /\ progressBy # a

\* C9: within one attempt the credential request, the PUT and the listing
\* request are never in flight together; the PUT is sent only after the
\* credential response arrived and targets that response's url; a listing
\* request of the attempt exists only once its PUT has resolved.
CredInFlight(a) == att[a].pc = "fetch"
PutInFlight(a) == xhr[a].state = "sent"
ListInFlight(a) == \E i \in ListsOf(a) : lists[i].st = "inflight"

C10_LatestListingWins ==
    (/\ Len(lists) >= 2
     /\ \A i \in 1..Len(lists) : lists[i].st = "done" /\ ~lists[i].failed)
    => objects = lists[Len(lists)].value

====
